---- MODULE Spec2Model ----
(***************************************************************************)
(* Person aggregate root of persona-api: persons, their immutable          *)
(* person_data submissions and the versioned persona computed from them.   *)
(* Every request is a small process whose steps are the awaited store and  *)
(* LLM calls of the handler, so that requests of different clients         *)
(* interleave exactly at the suspension points of the code.                *)
(***************************************************************************)
EXTENDS Integers, Sequences, FiniteSets, TLC

\* ---------------------------------------------------------------- bounds
\* the interleaved specification Spec
MaxData == 2
MaxVersion == 2
MaxPersonaDeletes == 1
\* the one-request-at-a-time specification SpecSeq
MaxSeqData == 2
MaxSeqVersion == 3
MaxSeqPersonaDeletes == 1
\* the specification of the read requests SpecRead
MaxReadData == 2
MaxReadVersion == 2
\* the specification of the request validation SpecApi
MaxApiData == 2
MaxApiVersion == 2
\* the specification of the persona routes SpecLegacy
MaxLegacyData == 2
MaxLegacyVersion == 1
\* the specification of the URL fetcher SpecFetch
MaxUrls == 3
\* the specification of the persona router SpecRoute: segments of a path
MaxSegments == 2
\* the specification of the JSON recovery SpecParse: characters of a response
MaxChars == 5
\* the specification of the two-step pipeline SpecLLM
MaxLlmData == 2
MaxLlmVersion == 2

\* Query(..., min_length=1, max_length=100000) of raw_text
MinRawText == 1
MaxRawText == 100000

Reqs == {1, 2}
Texts == {"t1", "t2"}
RaceTexts == {"t1"}
\* the texts a client can post, short for texts of the lengths of CharCount
ApiTexts == {"", "t1", "t2", "t3"}
\* the ids the store hands out to new persons
RacePersons == {1}
SeqPersons == {1, 2}
Sources == {"api"}
Limits == {1, 2}
Formats == {"json", "csv", "xml"}
\* what fetching one URL can give: a URLFetchError, or the text of the page
Pages == {[ok |-> FALSE, text |-> <<>>],
          [ok |-> TRUE, text |-> <<>>],
          [ok |-> TRUE, text |-> <<" ">>],
          [ok |-> TRUE, text |-> <<"a">>],
          [ok |-> TRUE, text |-> <<" ", "b">>]}
Offsets == {0, 1}

VARIABLES
    persons,          \* ids of the rows of table persons
    person_data,      \* rows of table person_data
    personas,         \* rows of table personas
    next_person_id,   \* next fresh identifier of each table
    next_data_id,
    next_persona_id,
    clock,            \* the store's clock, source of created_at
    req,              \* the requests in flight, one record per slot
    recomputes,       \* history: successful recomputations per person
    clean,            \* history: the person's persona was never deleted by id
    orphan,           \* history: the last submission whose own recomputation
                      \* failed and that no later recomputation has used yet
    persona_deletes   \* history: number of DELETE /v1/persona/{id} served

store == <<persons, person_data, personas, next_person_id, next_data_id,
           next_persona_id, clock>>
hist == <<recomputes, clean, orphan, persona_deletes>>
vars == <<persons, person_data, personas, next_person_id, next_data_id,
          next_persona_id, clock, req, recomputes, clean, orphan,
          persona_deletes>>

\* ------------------------------------------------------------ the store
NoDoc == [input |-> <<>>]

NoPersona == [id |-> 0, person_id |-> 0, persona |-> NoDoc, version |-> 0,
              computed_from_data_ids |-> <<>>]

\* foreign key person_data.person_id / personas.person_id -> persons.id
ForeignKeyHolds(pid) == pid \in persons

\* UNIQUE (person_id) on personas
UniqueNotEnforced(pid) == TRUE
UniquePersonHolds(pid) == \A x \in personas : x.person_id # pid

\* ON DELETE CASCADE of both child tables
CascadeDelete(rows, remaining) == {x \in rows : x.person_id \in remaining}

RECURSIVE OrderBy(_, _)
OrderBy(rows, desc) ==
    IF rows = {} THEN <<>>
    ELSE LET first == CHOOSE x \in rows : \A y \in rows :
                          IF desc THEN x.created_at >= y.created_at
                                  ELSE x.created_at <= y.created_at
         IN  <<first>> \o OrderBy(rows \ {first}, desc)

\* PostgREST .range(from, to): rows from..to of the ordered result, 0-based, inclusive
RangeStartsAtFirstRow(s, from, to) ==
    IF to - from + 1 < Len(s) THEN SubSeq(s, 1, to - from + 1) ELSE s
Range(s, from, to) ==
    LET lo == from + 1
        hi == IF to + 1 < Len(s) THEN to + 1 ELSE Len(s)
    IN  IF lo > hi THEN <<>> ELSE SubSeq(s, lo, hi)

\* ------------------------------------------------------- repositories
PersonRepository_read(pid) == pid \in persons

DeletePersonKeepsRow(tbl, pid) == tbl
PersonRepository_delete_row(tbl, pid) == tbl \ {pid}

InsertOverwritesHistory(tbl, row) ==
    {x \in tbl : x.person_id # row.person_id} \cup {row}
PersonDataRepository_insert(tbl, row) == tbl \cup {row}

RowsOf(pid) == {x \in person_data : x.person_id = pid}

RangeEndsOneTooFar(pid, limit, offset) ==
    Range(OrderBy(RowsOf(pid), FALSE), offset, offset + limit)
get_all_for_person(pid, limit, offset) ==
    Range(OrderBy(RowsOf(pid), FALSE), offset, offset + limit - 1)

RecomputeReadsNewestFirst(pid) == OrderBy(RowsOf(pid), TRUE)
get_all_for_person_unordered(pid) == OrderBy(RowsOf(pid), FALSE)

CountsEveryPerson(pid) == Cardinality(person_data)
count_for_person(pid) == Cardinality(RowsOf(pid))

get_by_person_id(pid) ==
    IF \E x \in personas : x.person_id = pid
    THEN CHOOSE x \in personas : x.person_id = pid
    ELSE NoPersona

UpdateRaisesStoredVersion(tbl, pid, persona_json, ids, version) ==
    {IF x.person_id = pid
     THEN [x EXCEPT !.persona = persona_json,
                    !.computed_from_data_ids = ids,
                    !.version = @ + 1]
     ELSE x : x \in tbl}
update_by_person_id(tbl, pid, persona_json, ids, version) ==
    {IF x.person_id = pid
     THEN [x EXCEPT !.persona = persona_json,
                    !.computed_from_data_ids = ids,
                    !.version = version]
     ELSE x : x \in tbl}

create_for_person(id, pid, persona_json, ids, version) ==
    [id |-> id, person_id |-> pid, persona |-> persona_json,
     version |-> version, computed_from_data_ids |-> ids]

\* ------------------------------------------------------------ services
VersionRestartsAtOne(current) == 1
new_version(current) ==
    IF current # NoPersona THEN current.version + 1 ELSE 1

DataIdsOfLatestOnly(all_data) ==
    IF all_data = <<>> THEN <<>> ELSE <<all_data[Len(all_data)].id>>
data_ids(all_data) == [i \in 1..Len(all_data) |-> all_data[i].id]

_concatenate_person_data(submissions) ==
    [i \in 1..Len(submissions) |->
        [header |-> <<i, submissions[i].created_at>>,
         raw_text |-> submissions[i].raw_text]]

\* a raw text handed to the pipeline as it is: one piece without a header
PlainText(raw_text) == <<[header |-> <<>>, raw_text |-> raw_text]>>

generate_persona(text) == [input |-> text]

\* what recompute_persona does with a failure of the LLM pipeline
LLMFailureIsSwallowed == "rc_version"
on_llm_failure == "done"

\* what a failed recomputation raises to the caller of the service
RegenerateFailureIsSwallowed == "none"
regenerate_failure == "ValueError"

\* where add_person_data goes after its insert
AddTriggersRecompute(op) == "rc_fetch"
after_insert(op) ==
    IF op = "add_person_data_and_regenerate" THEN "rc_fetch" ELSE "done"

\* where the add operations go after reading the person
PersonCheckMissing(found) == "add_insert"
after_person_check(found) == IF found THEN "add_insert" ELSE "done"

\* the number of characters of a text
CharCount(text) ==
    CASE text = "" -> 0
      [] text = "t1" -> 1
      [] text = "t2" -> MaxRawText
      [] text = "t3" -> MaxRawText + 1

\* the declared constraints of the query parameter raw_text
RawTextBoundIsExclusive(text) ==
    CharCount(text) >= MinRawText /\ CharCount(text) < MaxRawText
valid_raw_text(text) ==
    CharCount(text) >= MinRawText /\ CharCount(text) <= MaxRawText

\* the status the routes of person_routes.py and routes.py answer with
http_status(q) ==
    IF q.exc = "RequestValidationError" THEN 422
    ELSE IF q.op = "merge_personas"
    THEN (IF q.exc = "none" THEN 200
          ELSE IF q.exc = "ValueError: not found" THEN 404 ELSE 400)
    ELSE IF q.op = "export_personas"
    THEN (IF q.exc = "none" THEN 200 ELSE 400)
    ELSE IF q.exc = "ValueError" THEN 404
    ELSE IF q.exc # "none" THEN 500
    ELSE IF q.op = "delete_person" THEN (IF q.ret_found THEN 204 ELSE 404)
    ELSE IF q.op = "get_person" THEN (IF q.ret_found THEN 200 ELSE 404)
    ELSE IF q.op = "get_person_data_history" THEN 200
    ELSE 201

\* ------------------------------------------------------------- requests
IdleReq ==
    [op |-> "none", pc |-> "idle", person_id |-> 0, raw_text |-> "",
     source |-> "", limit |-> 0, offset |-> 0, submission |-> 0,
     all_data |-> <<>>, persona_json |-> NoDoc, new_version |-> 0,
     existing |-> FALSE, exc |-> "none", ret_found |-> FALSE,
     ret_persona |-> NoPersona, ret_items |-> <<>>, ret_total |-> 0,
     ret_version |-> 0,
     persona_id_1 |-> 0, persona_id_2 |-> 0, merged_raw_text |-> "",
     format |-> "", store_calls |-> 0,
     urls |-> <<>>, contents |-> <<>>, errors |-> <<>>, result |-> <<>>,
     method |-> "", path |-> <<>>, endpoint |-> "",
     response |-> <<>>, tried |-> <<>>, parsed |-> <<>>,
     cleaned_text |-> "", populate_input |-> "",
     llm_invoked |-> FALSE, failed_at |-> "none", alone |-> FALSE,
     personas_at_start |-> {}, count_at_start |-> 0]

Recomputing(q) ==
    q.op \in {"add_person_data_and_regenerate", "recompute_persona"}

Adding(q) == q.op \in {"add_person_data", "add_person_data_and_regenerate"}

Active(q) == q.pc # "idle"

InFlightOn(pid) == {q \in Reqs : Active(req[q]) /\ req[q].person_id = pid}

PendingInserts ==
    Cardinality({q \in Reqs : Adding(req[q])
                              /\ req[q].pc \in {"add_read", "add_insert"}})

PendingRecomputes(pid) ==
    Cardinality({q \in InFlightOn(pid) : Recomputing(req[q])
                                         /\ req[q].pc # "done"})

\* a finished request is answered before the server does anything else
NoneDone == \A q \in Reqs : req[q].pc # "done"

FirstIdle(r) ==
    /\ NoneDone
    /\ req[r].pc = "idle"
    /\ \A q \in Reqs : q < r => req[q].pc # "idle"

At(r, pc) == NoneDone /\ req[r].pc = pc

\* history: a request is alone while no other request or operation
\* overlaps it; only then is its view of the tables at its start kept
Overlapped(q) ==
    [q EXCEPT !.alone = FALSE, !.personas_at_start = {}, !.count_at_start = 0]

Begin(r, op, pc, pid, text, source, limit, offset) ==
    LET alone == \A q \in Reqs : ~Active(req[q])
        fresh == [IdleReq EXCEPT
                     !.op = op, !.pc = pc, !.person_id = pid,
                     !.raw_text = text, !.source = source,
                     !.limit = limit, !.offset = offset,
                     !.alone = alone,
                     !.personas_at_start = IF alone THEN personas ELSE {},
                     !.count_at_start =
                         IF alone THEN count_for_person(pid) ELSE 0]
    IN  req' = [q \in Reqs |-> IF q = r THEN fresh ELSE Overlapped(req[q])]

Step(r, q) == req' = [req EXCEPT ![r] = q]

\* POST /v1/person
create_person ==
    /\ NoneDone
    /\ persons' = persons \cup {next_person_id}
    /\ next_person_id' = next_person_id + 1
    /\ recomputes' = recomputes @@ (next_person_id :> 0)
    /\ clean' = clean @@ (next_person_id :> TRUE)
    /\ req' = [q \in Reqs |-> Overlapped(req[q])]
    /\ UNCHANGED <<person_data, personas, next_data_id, next_persona_id,
                   clock, orphan, persona_deletes>>

\* DELETE /v1/person/{id}
begin_delete_person(r, pid) ==
    /\ FirstIdle(r)
    /\ Begin(r, "delete_person", "del_read", pid, "", "", 0, 0)
    /\ UNCHANGED <<store, hist>>

delete_read(r) ==
    /\ At(r, "del_read")
    /\ IF PersonRepository_read(req[r].person_id)
       THEN Step(r, [req[r] EXCEPT !.pc = "del_exec"])
       ELSE Step(r, [req[r] EXCEPT !.pc = "done", !.ret_found = FALSE])
    /\ UNCHANGED <<store, hist>>

delete_exec(r) ==
    /\ At(r, "del_exec")
    /\ persons' = PersonRepository_delete_row(persons, req[r].person_id)
    /\ person_data' = CascadeDelete(person_data, persons')
    /\ personas' = CascadeDelete(personas, persons')
    /\ Step(r, [req[r] EXCEPT !.pc = "done", !.ret_found = TRUE])
    /\ UNCHANGED <<next_person_id, next_data_id, next_persona_id, clock, hist>>

\* POST /v1/person/{id}/data and POST /v1/person/{id}/data-and-regenerate
begin_add_person_data(r, pid, text, source) ==
    /\ FirstIdle(r)
    /\ Begin(r, "add_person_data", "add_read", pid, text, source, 0, 0)
    /\ UNCHANGED <<store, hist>>

begin_add_person_data_and_regenerate(r, pid, text, source) ==
    /\ FirstIdle(r)
    /\ Begin(r, "add_person_data_and_regenerate", "add_read", pid, text,
             source, 0, 0)
    /\ UNCHANGED <<store, hist>>

add_read(r) ==
    /\ At(r, "add_read")
    /\ LET found == PersonRepository_read(req[r].person_id)
           next == after_person_check(found)
       IN  Step(r, [req[r] EXCEPT
                      !.pc = next,
                      !.exc = IF next = "done" THEN "ValueError" ELSE "none"])
    /\ UNCHANGED <<store, hist>>

add_insert(r) ==
    /\ At(r, "add_insert")
    /\ LET q == req[r]
           row == [id |-> next_data_id, person_id |-> q.person_id,
                   raw_text |-> q.raw_text, source |-> q.source,
                   created_at |-> clock]
       IN  \/ \* the store call fails
              /\ Step(r, [q EXCEPT !.pc = "done", !.exc = "APIError"])
              /\ UNCHANGED <<person_data, next_data_id, clock>>
           \/ IF ForeignKeyHolds(q.person_id)
              THEN /\ person_data' = PersonDataRepository_insert(person_data, row)
                   /\ next_data_id' = next_data_id + 1
                   /\ clock' = clock + 1
                   /\ Step(r, [q EXCEPT !.pc = after_insert(q.op),
                                        !.submission = row.id])
              ELSE /\ Step(r, [q EXCEPT !.pc = "done", !.exc = "APIError"])
                   /\ UNCHANGED <<person_data, next_data_id, clock>>
    /\ UNCHANGED <<persons, personas, next_person_id, next_persona_id, hist>>

\* recompute_persona, called by the service and by data-and-regenerate
begin_recompute_persona(r, pid) ==
    /\ FirstIdle(r)
    /\ Begin(r, "recompute_persona", "rc_fetch", pid, "", "", 0, 0)
    /\ UNCHANGED <<store, hist>>

RecomputeFails(r, where) ==
    /\ Step(r, [req[r] EXCEPT !.pc = "done", !.exc = regenerate_failure,
                              !.failed_at = where])
    /\ orphan' = IF req[r].op = "add_person_data_and_regenerate"
                 THEN req[r].submission ELSE orphan

\* if not all_data: return None
EmptyDataStillGenerates(all_data) == "rc_llm"
after_fetch(all_data) == IF all_data # <<>> THEN "rc_llm" ELSE "done"

rc_fetch(r) ==
    /\ At(r, "rc_fetch")
    /\ LET q == req[r]
           all_data == get_all_for_person_unordered(q.person_id)
       IN  \/ \* the store call fails
              RecomputeFails(r, "store")
           \/ IF after_fetch(all_data) = "rc_llm"
              THEN /\ Step(r, [q EXCEPT !.pc = "rc_llm", !.all_data = all_data])
                   /\ UNCHANGED orphan
              ELSE IF q.op = "recompute_persona"
              THEN /\ Step(r, [q EXCEPT !.pc = "done"])
                   /\ UNCHANGED orphan
              ELSE RecomputeFails(r, "no_data")
    /\ UNCHANGED <<store, recomputes, clean, persona_deletes>>

rc_llm(r) ==
    /\ At(r, "rc_llm")
    /\ LET q == req[r]
           accumulated_text == _concatenate_person_data(q.all_data)
       IN  \/ /\ Step(r, [q EXCEPT !.pc = "rc_version", !.llm_invoked = TRUE,
                             !.persona_json = generate_persona(accumulated_text)])
              /\ UNCHANGED orphan
           \/ /\ Step(r, [q EXCEPT
                             !.pc = on_llm_failure, !.llm_invoked = TRUE,
                             !.failed_at = "llm",
                             !.exc = IF on_llm_failure = "done"
                                     THEN regenerate_failure ELSE @])
              /\ orphan' = IF q.op = "add_person_data_and_regenerate"
                           THEN q.submission ELSE orphan
    /\ UNCHANGED <<store, recomputes, clean, persona_deletes>>

rc_version(r) ==
    /\ At(r, "rc_version")
    /\ LET current_persona == get_by_person_id(req[r].person_id)
       IN  \/ \* the store call fails
              RecomputeFails(r, "store")
           \/ /\ Step(r, [req[r] EXCEPT
                             !.pc = "up_check",
                             !.new_version = new_version(current_persona)])
              /\ UNCHANGED orphan
    /\ UNCHANGED <<store, recomputes, clean, persona_deletes>>

\* PersonaRepository.upsert: the existence check, then the write
upsert_check(r) ==
    /\ At(r, "up_check")
    /\ \/ \* the store call fails
          RecomputeFails(r, "store")
       \/ /\ Step(r, [req[r] EXCEPT
                         !.pc = "up_write",
                         !.existing =
                             get_by_person_id(req[r].person_id) # NoPersona])
          /\ UNCHANGED orphan
    /\ UNCHANGED <<store, recomputes, clean, persona_deletes>>

RecomputeSucceeds(r, row) ==
    /\ Step(r, [req[r] EXCEPT !.pc = "done", !.ret_persona = row])
    /\ recomputes' = [recomputes EXCEPT
                        ![req[r].person_id] = IF clean[req[r].person_id]
                                              THEN @ + 1 ELSE 0]
    /\ UNCHANGED orphan

upsert_write(r) ==
    /\ At(r, "up_write")
    /\ LET q == req[r]
           pid == q.person_id
           ids == data_ids(q.all_data)
           updated == update_by_person_id(personas, pid, q.persona_json, ids,
                                          q.new_version)
           created == create_for_person(next_persona_id, pid, q.persona_json,
                                        ids, q.new_version)
       IN  \/ \* the store call fails
              /\ RecomputeFails(r, "store")
              /\ UNCHANGED <<personas, next_persona_id, recomputes>>
           \/ /\ q.existing
              /\ IF \E x \in personas : x.person_id = pid
                 THEN /\ personas' = updated
                      /\ RecomputeSucceeds(r, CHOOSE x \in updated :
                                                  x.person_id = pid)
                 ELSE /\ RecomputeFails(r, "not_found")
                      /\ UNCHANGED <<personas, recomputes>>
              /\ UNCHANGED next_persona_id
           \/ /\ ~q.existing
              /\ IF ForeignKeyHolds(pid) /\ UniquePersonHolds(pid)
                 THEN /\ personas' = personas \cup {created}
                      /\ next_persona_id' = next_persona_id + 1
                      /\ RecomputeSucceeds(r, created)
                 ELSE /\ RecomputeFails(r, IF ForeignKeyHolds(pid)
                                           THEN "unique" ELSE "foreign_key")
                      /\ UNCHANGED <<personas, next_persona_id, recomputes>>
    /\ UNCHANGED <<persons, person_data, next_person_id, next_data_id, clock,
                   clean, persona_deletes>>

\* GET /v1/person/{id}/data
begin_get_person_data_history(r, pid, limit, offset) ==
    /\ FirstIdle(r)
    /\ Begin(r, "get_person_data_history", "h_items", pid, "", "", limit, offset)
    /\ UNCHANGED <<store, hist>>

history_items(r) ==
    /\ At(r, "h_items")
    /\ Step(r, [req[r] EXCEPT
                  !.pc = "h_count",
                  !.ret_items = get_all_for_person(req[r].person_id,
                                                   req[r].limit, req[r].offset)])
    /\ UNCHANGED <<store, hist>>

history_count(r) ==
    /\ At(r, "h_count")
    /\ Step(r, [req[r] EXCEPT !.pc = "done",
                              !.ret_total = count_for_person(req[r].person_id)])
    /\ UNCHANGED <<store, hist>>

\* GET /v1/person/{id}
begin_get_person(r, pid) ==
    /\ FirstIdle(r)
    /\ Begin(r, "get_person", "gp_read", pid, "", "", 0, 0)
    /\ UNCHANGED <<store, hist>>

get_person_read(r) ==
    /\ At(r, "gp_read")
    /\ IF PersonRepository_read(req[r].person_id)
       THEN Step(r, [req[r] EXCEPT !.pc = "gp_count", !.ret_found = TRUE])
       ELSE Step(r, [req[r] EXCEPT !.pc = "done", !.ret_found = FALSE])
    /\ UNCHANGED <<store, hist>>

get_person_count(r) ==
    /\ At(r, "gp_count")
    /\ Step(r, [req[r] EXCEPT !.pc = "gp_persona",
                              !.ret_total = count_for_person(req[r].person_id)])
    /\ UNCHANGED <<store, hist>>

get_person_persona(r) ==
    /\ At(r, "gp_persona")
    /\ Step(r, [req[r] EXCEPT
                  !.pc = "done",
                  !.ret_version = get_by_person_id(req[r].person_id).version])
    /\ UNCHANGED <<store, hist>>

\* DELETE /v1/persona/{persona_id}
delete_persona(persona_id) ==
    /\ NoneDone
    /\ \E x \in personas :
          /\ x.id = persona_id
          /\ personas' = personas \ {x}
          /\ clean' = [clean EXCEPT ![x.person_id] = FALSE]
          /\ recomputes' = [recomputes EXCEPT ![x.person_id] = 0]
    /\ persona_deletes' = persona_deletes + 1
    /\ req' = [q \in Reqs |-> Overlapped(req[q])]
    /\ UNCHANGED <<persons, person_data, next_person_id, next_data_id,
                   next_persona_id, clock, orphan>>

\* POST /v1/persona/merge
None == "None"

PersonaRepository_read(persona_id) ==
    IF \E x \in personas : x.id = persona_id
    THEN CHOOSE x \in personas : x.id = persona_id
    ELSE NoPersona

\* PersonaInDB declares persona, id, person_id, version and the lineage,
\* and no raw_text: reading the attribute raises
HasRawText(persona) == "raw_text" \in DOMAIN persona

PersonaRepository_update(tbl, persona_id, persona_json) ==
    {IF x.id = persona_id THEN [x EXCEPT !.persona = persona_json] ELSE x :
        x \in tbl}

begin_merge_personas(r, id_1, id_2, text) ==
    /\ FirstIdle(r)
    /\ LET alone == \A q \in Reqs : ~Active(req[q])
           fresh == [IdleReq EXCEPT
                        !.op = "merge_personas", !.pc = "mg_read_1",
                        !.persona_id_1 = id_1, !.persona_id_2 = id_2,
                        !.merged_raw_text = text, !.alone = alone,
                        !.personas_at_start = IF alone THEN personas ELSE {}]
       IN  req' = [q \in Reqs |-> IF q = r THEN fresh ELSE Overlapped(req[q])]
    /\ UNCHANGED <<store, hist>>

MergeFails(r, exc, where) ==
    Step(r, [req[r] EXCEPT !.pc = "done", !.exc = exc, !.failed_at = where])

merge_read_1(r) ==
    /\ At(r, "mg_read_1")
    /\ IF PersonaRepository_read(req[r].persona_id_1) = NoPersona
       THEN MergeFails(r, "ValueError: not found", "read")
       ELSE Step(r, [req[r] EXCEPT !.pc = "mg_read_2"])
    /\ UNCHANGED <<store, hist>>

merge_read_2(r) ==
    /\ At(r, "mg_read_2")
    /\ LET q == req[r]
           persona_2 == PersonaRepository_read(q.persona_id_2)
       IN  IF persona_2 = NoPersona
           THEN MergeFails(r, "ValueError: not found", "read")
           ELSE IF q.merged_raw_text = None /\ ~HasRawText(persona_2)
           THEN MergeFails(r, "ValueError", "raw_text")
           ELSE Step(r, [q EXCEPT !.pc = "mg_llm"])
    /\ UNCHANGED <<store, hist>>

\* PersonaSynthesizer.regenerate_persona: the LLM call, then the update
merge_llm(r) ==
    /\ At(r, "mg_llm")
    /\ \/ Step(r, [req[r] EXCEPT
                      !.pc = "mg_update", !.llm_invoked = TRUE,
                      !.persona_json = generate_persona(PlainText(req[r].merged_raw_text))])
       \/ MergeFails(r, "ValueError", "llm")
    /\ UNCHANGED <<store, hist>>

merge_update(r) ==
    /\ At(r, "mg_update")
    /\ LET q == req[r]
           updated == PersonaRepository_update(personas, q.persona_id_1,
                                               q.persona_json)
       IN  \/ \* the store call fails
              /\ MergeFails(r, "ValueError", "store")
              /\ UNCHANGED personas
           \/ IF PersonaRepository_read(q.persona_id_1) # NoPersona
              THEN /\ personas' = updated
                   /\ Step(r, [q EXCEPT
                                  !.pc = "mg_delete",
                                  !.ret_persona =
                                      CHOOSE x \in updated :
                                          x.id = q.persona_id_1])
              ELSE /\ MergeFails(r, "ValueError: not found", "store")
                   /\ UNCHANGED personas
    /\ UNCHANGED <<persons, person_data, next_person_id, next_data_id,
                   next_persona_id, clock, hist>>

merge_delete(r) ==
    /\ At(r, "mg_delete")
    /\ LET q == req[r]
           gone == {x \in personas : x.id = q.persona_id_2}
       IN  \/ \* the store call fails
              /\ MergeFails(r, "ValueError", "store")
              /\ UNCHANGED <<personas, clean, recomputes>>
           \/ /\ personas' = personas \ gone
              /\ clean' = [p \in DOMAIN clean |->
                              clean[p] /\ \A x \in gone : x.person_id # p]
              /\ recomputes' = [p \in DOMAIN recomputes |->
                                   IF \E x \in gone : x.person_id = p
                                   THEN 0 ELSE recomputes[p]]
              /\ Step(r, [q EXCEPT !.pc = "done"])
    /\ UNCHANGED <<persons, person_data, next_person_id, next_data_id,
                   next_persona_id, clock, orphan, persona_deletes>>

\* GET /v1/persona/export
RECURSIVE NewestFirst(_)
NewestFirst(rows) ==
    IF rows = {} THEN <<>>
    ELSE LET first == CHOOSE x \in rows : \A y \in rows : x.id >= y.id
         IN  <<first>> \o NewestFirst(rows \ {first})

PersonaRepository_read_all(limit, offset) ==
    <<Range(NewestFirst(personas), offset, offset + limit - 1),
      Cardinality(personas)>>

\* where export_personas goes after looking at the format
FormatCheckedAfterListing(format) == "ex_list"
after_format_check(format) == IF format # "json" THEN "done" ELSE "ex_list"

begin_export_personas(r, format, limit) ==
    /\ FirstIdle(r)
    /\ LET alone == \A q \in Reqs : ~Active(req[q])
           next == after_format_check(format)
           fresh == [IdleReq EXCEPT
                        !.op = "export_personas", !.pc = next,
                        !.format = format, !.limit = limit, !.alone = alone,
                        !.exc = IF next = "done" THEN "ValueError" ELSE "none"]
       IN  req' = [q \in Reqs |-> IF q = r THEN fresh ELSE Overlapped(req[q])]
    /\ UNCHANGED <<store, hist>>

export_list(r) ==
    /\ At(r, "ex_list")
    /\ LET q == req[r]
           listed == PersonaRepository_read_all(q.limit, 0)
       IN  \/ \* the store call fails
              Step(r, [q EXCEPT !.pc = "done", !.exc = "ValueError",
                                !.failed_at = "store",
                                !.store_calls = @ + 1])
           \/ Step(r, [q EXCEPT !.pc = "done", !.ret_items = listed[1],
                                !.ret_total = listed[2],
                                !.store_calls = @ + 1])
    /\ UNCHANGED <<store, hist>>

\* the persona router: a path is the sequence of its segments after the
\* prefix /v1/persona, a route's path has one pattern per segment
Methods == {"GET", "POST", "PATCH", "DELETE"}

Segments == {"search", "stats", "export", "merge", "batch", "p1"}

Paths == UNION {[1..n -> Segments] : n \in 0..MaxSegments}

Route(method, path, endpoint) ==
    [method |-> method, path |-> path, endpoint |-> endpoint]

\* the registration order with the generic routes ahead of the fixed ones
GenericRoutesFirst ==
    <<Route("POST", <<>>, "create_persona"),
      Route("GET", <<>>, "list_personas"),
      Route("GET", <<"{persona_id}">>, "get_persona"),
      Route("PATCH", <<"{persona_id}">>, "update_persona_endpoint"),
      Route("DELETE", <<"{persona_id}">>, "delete_persona_endpoint"),
      Route("POST", <<"merge">>, "merge_personas"),
      Route("POST", <<"batch">>, "batch_generate_personas"),
      Route("GET", <<"search">>, "search_personas"),
      Route("GET", <<"stats">>, "get_persona_stats"),
      Route("GET", <<"export">>, "export_personas")>>
\* the decorators of routes.py, in the order they run
router ==
    <<Route("POST", <<>>, "create_persona"),
      Route("GET", <<>>, "list_personas"),
      Route("POST", <<"merge">>, "merge_personas"),
      Route("POST", <<"batch">>, "batch_generate_personas"),
      Route("GET", <<"search">>, "search_personas"),
      Route("GET", <<"stats">>, "get_persona_stats"),
      Route("GET", <<"export">>, "export_personas"),
      Route("GET", <<"{persona_id}">>, "get_persona"),
      Route("PATCH", <<"{persona_id}">>, "update_persona_endpoint"),
      Route("DELETE", <<"{persona_id}">>, "delete_persona_endpoint")>>

\* a path parameter takes any one segment, a literal only itself
path_matches(route, path) ==
    /\ Len(path) = Len(route.path)
    /\ \A i \in 1..Len(path) :
           route.path[i] = "{persona_id}" \/ route.path[i] = path[i]

Lowest(S) == CHOOSE i \in S : \A j \in S : i <= j

\* first-match routing: the first route matching path and method, else the
\* first matching the path alone (405), else 404
dispatch(method, path) ==
    LET full == {i \in 1..Len(router) :
                    path_matches(router[i], path) /\ router[i].method = method}
        partial == {i \in 1..Len(router) : path_matches(router[i], path)}
    IN  IF full # {} THEN router[Lowest(full)].endpoint
        ELSE IF partial # {} THEN "method_not_allowed"
        ELSE "not_found"

route_request(r, method, path) ==
    /\ FirstIdle(r)
    /\ req' = [q \in Reqs |->
                 IF q = r
                 THEN [IdleReq EXCEPT !.op = "route", !.pc = "done",
                                      !.method = method, !.path = path,
                                      !.endpoint = dispatch(method, path)]
                 ELSE Overlapped(req[q])]
    /\ UNCHANGED <<store, hist>>

\* URLFetcher.fetch_multiple
Whitespace == {" ", "\n", "\t"}

RECURSIVE lstrip(_)
lstrip(text) ==
    IF text # <<>> /\ Head(text) \in Whitespace THEN lstrip(Tail(text)) ELSE text

RECURSIVE rstrip(_)
rstrip(text) ==
    IF text # <<>> /\ text[Len(text)] \in Whitespace
    THEN rstrip(SubSeq(text, 1, Len(text) - 1)) ELSE text

strip(text) == rstrip(lstrip(text))

\* "\n\n---\n\n".join(contents)
Separator == <<"\n", "\n", "-", "-", "-", "\n", "\n">>

RECURSIVE join(_, _)
join(sep, parts) ==
    IF parts = <<>> THEN <<>>
    ELSE IF Len(parts) = 1 THEN parts[1]
    ELSE parts[1] \o sep \o join(sep, Tail(parts))

\* which fetched contents fetch_multiple keeps
keeps_content(content) == strip(content) # <<>>

begin_fetch_multiple(r, urls) ==
    /\ FirstIdle(r)
    /\ req' = [q \in Reqs |->
                 IF q = r
                 THEN [IdleReq EXCEPT !.op = "fetch_multiple", !.pc = "fm_loop",
                                      !.urls = urls]
                 ELSE Overlapped(req[q])]
    /\ UNCHANGED <<store, hist>>

\* one turn of the loop: await fetch_url(url)
fetch_url(r) ==
    /\ At(r, "fm_loop")
    /\ Len(req[r].contents) + Len(req[r].errors) < Len(req[r].urls)
    /\ LET q == req[r]
           url == q.urls[Len(q.contents) + Len(q.errors) + 1]
       IN  IF ~url.ok
           THEN Step(r, [q EXCEPT !.errors = Append(@, "URLFetchError")])
           ELSE IF keeps_content(url.text)
           THEN Step(r, [q EXCEPT !.contents = Append(@, url.text)])
           ELSE Step(r, [q EXCEPT !.errors = Append(@, "skipped")])
    /\ UNCHANGED <<store, hist>>

fetch_multiple_return(r) ==
    /\ At(r, "fm_loop")
    /\ Len(req[r].contents) + Len(req[r].errors) = Len(req[r].urls)
    /\ IF req[r].contents = <<>>
       THEN Step(r, [req[r] EXCEPT !.pc = "done", !.exc = "URLFetchError"])
       ELSE Step(r, [req[r] EXCEPT !.pc = "done",
                                   !.result = join(Separator, req[r].contents)])
    /\ UNCHANGED <<store, hist>>

\* PersonaLLMChain._safe_json_parse. A response is a sequence of characters:
\* braces, "v" for the members of a flat object, "k" for a key whose value is
\* the object that follows, "#" for a fence of three backticks, "j" for the
\* word json and for any other prose, and the blank.
Chars == {"{", "}", "v", "k", "j", "#", " "}

Responses == UNION {[1..n -> Chars] : n \in 0..MaxChars}

RECURSIVE is_object(_)
is_object(text) ==
    /\ Len(text) >= 2
    /\ text[1] = "{"
    /\ text[Len(text)] = "}"
    /\ LET inner == strip(SubSeq(text, 2, Len(text) - 1))
       IN  \/ inner = <<>>
           \/ inner = <<"v">>
           \/ /\ Len(inner) >= 3
              /\ inner[1] = "k"
              /\ is_object(strip(Tail(inner)))

\* json.loads: the value read, or a JSONDecodeError
JSONDecodeError == <<"JSONDecodeError">>

json_loads(text) ==
    IF is_object(strip(text))
    THEN SelectSeq(text, LAMBDA c : c \notin Whitespace)
    ELSE JSONDecodeError

Blank(text, a, b) == \A i \in a..b : text[i] \in Whitespace

\* re.search of a fence, the optional word json, blanks, the shortest
\* object-looking group, blanks and a fence: the matches
\* <<fence, first, last>> of the pattern, group 1 being text[first..last]
code_blocks(text) ==
    {m \in (1..Len(text)) \X (1..Len(text)) \X (1..Len(text)) :
        /\ text[m[1]] = "#"
        /\ m[1] < m[2] /\ m[2] < m[3]
        /\ text[m[2]] = "{"
        /\ \/ Blank(text, m[1] + 1, m[2] - 1)
           \/ text[m[1] + 1] = "j" /\ Blank(text, m[1] + 2, m[2] - 1)
        /\ text[m[3]] = "}"
        /\ \E c \in (m[3] + 1)..Len(text) :
               text[c] = "#" /\ Blank(text, m[3] + 1, c - 1)}

\* the leftmost match, and for it the shortest group
re_search(text) ==
    CHOOSE m \in code_blocks(text) :
        \A n \in code_blocks(text) :
            m[1] < n[1] \/ (m[1] = n[1] /\ m[3] <= n[3])

\* text.find("{") and text.rfind("}"), 0 when there is none
find_open(text) ==
    IF \E i \in 1..Len(text) : text[i] = "{"
    THEN Lowest({i \in 1..Len(text) : text[i] = "{"}) ELSE 0

rfind_close(text) ==
    IF \E i \in 1..Len(text) : text[i] = "}"
    THEN CHOOSE i \in 1..Len(text) :
             text[i] = "}" /\ \A j \in (i + 1)..Len(text) : text[j] # "}"
    ELSE 0

\* what follows a failed direct parse
BracesBeforeCodeBlock == "parse_braces"
after_direct_failure == "parse_markdown"

begin_safe_json_parse(r, text) ==
    /\ FirstIdle(r)
    /\ req' = [q \in Reqs |->
                 IF q = r
                 THEN [IdleReq EXCEPT !.op = "_safe_json_parse",
                                      !.pc = "parse_direct", !.response = text]
                 ELSE Overlapped(req[q])]
    /\ UNCHANGED <<store, hist>>

Parsed(r, strategy, value) ==
    Step(r, [req[r] EXCEPT !.pc = "done", !.parsed = value,
                           !.tried = Append(@, strategy)])

parse_direct(r) ==
    /\ At(r, "parse_direct")
    /\ LET result == json_loads(req[r].response)
       IN  IF result # JSONDecodeError
           THEN Parsed(r, "direct", result)
           ELSE Step(r, [req[r] EXCEPT !.pc = after_direct_failure,
                                       !.tried = Append(@, "direct")])
    /\ UNCHANGED <<store, hist>>

parse_markdown(r) ==
    /\ At(r, "parse_markdown")
    /\ LET text == req[r].response
           fails == Step(r, [req[r] EXCEPT !.pc = "parse_braces",
                                           !.tried = Append(@, "markdown")])
       IN  IF code_blocks(text) = {}
           THEN fails
           ELSE LET match == re_search(text)
                    result == json_loads(SubSeq(text, match[2], match[3]))
                IN  IF result # JSONDecodeError
                    THEN Parsed(r, "markdown", result)
                    ELSE fails
    /\ UNCHANGED <<store, hist>>

parse_braces(r) ==
    /\ At(r, "parse_braces")
    /\ LET text == req[r].response
           start == find_open(text)
           end == rfind_close(text)
           raises == Step(r, [req[r] EXCEPT !.pc = "done", !.exc = "ValueError",
                                            !.failed_at = "parse",
                                            !.tried = Append(@, "braces")])
       IN  IF start # 0 /\ end > start
           THEN LET result == json_loads(SubSeq(text, start, end))
                IN  IF result # JSONDecodeError
                    THEN Parsed(r, "braces", result)
                    ELSE raises
           ELSE raises
    /\ UNCHANGED <<store, hist>>

\* _safe_json_parse as one call: the value of the first strategy that
\* parses, or the ValueError
_safe_json_parse(text) ==
    IF json_loads(text) # JSONDecodeError THEN json_loads(text)
    ELSE LET block == IF code_blocks(text) = {} THEN JSONDecodeError
                      ELSE LET m == re_search(text)
                           IN  json_loads(SubSeq(text, m[2], m[3]))
             start == find_open(text)
             end == rfind_close(text)
             span == IF start # 0 /\ end > start
                     THEN json_loads(SubSeq(text, start, end))
                     ELSE JSONDecodeError
         IN  IF block # JSONDecodeError THEN block
             ELSE IF span # JSONDecodeError THEN span
             ELSE <<"ValueError">>

\* PersonaLLMChain.generate_persona inside recompute_persona, step by step.
\* What the model answers is not decided by the program: step 1 answers
\* one of CleanedTexts, step 2 one of Replies, or the call fails.
CleanedTexts == {"c1", "c2"}

Replies == {<<"{", "v", "}">>, <<"j", "{", "v", "}">>, <<"j">>}

PipelineFails(r, q) ==
    /\ Step(r, [q EXCEPT !.pc = on_llm_failure, !.llm_invoked = TRUE,
                         !.failed_at = "llm",
                         !.exc = IF on_llm_failure = "done"
                                 THEN regenerate_failure ELSE @])
    /\ orphan' = IF q.op = "add_person_data_and_regenerate"
                 THEN q.submission ELSE orphan

\* what generate_persona does when step 1 raised
CleanFailureIsSkipped == "llm_step2"
after_clean_failure == "raise"

step1_clean_text(r) ==
    /\ At(r, "rc_llm")
    /\ \/ \E cleaned \in CleanedTexts :
             /\ Step(r, [req[r] EXCEPT !.pc = "llm_step2", !.llm_invoked = TRUE,
                                       !.cleaned_text = cleaned])
             /\ UNCHANGED orphan
       \/ IF after_clean_failure = "raise"
          THEN PipelineFails(r, req[r])
          ELSE /\ Step(r, [req[r] EXCEPT !.pc = after_clean_failure,
                                         !.llm_invoked = TRUE])
               /\ UNCHANGED orphan
    /\ UNCHANGED <<store, recomputes, clean, persona_deletes>>

step2_populate_persona(r) ==
    /\ At(r, "llm_step2")
    /\ LET q == [req[r] EXCEPT !.populate_input = req[r].cleaned_text]
       IN  \/ \E persona_text \in Replies :
                LET persona_json == _safe_json_parse(persona_text)
                IN  IF persona_json # <<"ValueError">>
                    THEN /\ Step(r, [q EXCEPT
                                       !.pc = "rc_version",
                                       !.response = persona_text,
                                       !.parsed = persona_json,
                                       !.persona_json = generate_persona(
                                           _concatenate_person_data(q.all_data))])
                         /\ UNCHANGED orphan
                    ELSE PipelineFails(r, [q EXCEPT !.response = persona_text])
           \/ PipelineFails(r, q)
    /\ UNCHANGED <<store, recomputes, clean, persona_deletes>>

\* the routes validate the query parameters before the handler body runs
Reject(r, op, pid, text, source) ==
    /\ FirstIdle(r)
    /\ req' = [q \in Reqs |->
                 IF q = r
                 THEN [IdleReq EXCEPT !.op = op, !.pc = "done",
                                      !.person_id = pid, !.raw_text = text,
                                      !.source = source,
                                      !.exc = "RequestValidationError"]
                 ELSE Overlapped(req[q])]
    /\ UNCHANGED <<store, hist>>

post_person_data(r, pid, text, source) ==
    IF valid_raw_text(text)
    THEN begin_add_person_data(r, pid, text, source)
    ELSE Reject(r, "add_person_data", pid, text, source)

post_data_and_regenerate(r, pid, text, source) ==
    IF valid_raw_text(text)
    THEN begin_add_person_data_and_regenerate(r, pid, text, source)
    ELSE Reject(r, "add_person_data_and_regenerate", pid, text, source)

\* the response leaves the server
OwnerOf(data_id) ==
    IF \E x \in person_data : x.id = data_id
    THEN (CHOOSE x \in person_data : x.id = data_id).person_id
    ELSE 0

Succeeded(q) == Recomputing(q) /\ q.pc = "done" /\ q.ret_persona # NoPersona

respond(r) ==
    /\ req[r].pc = "done"
    /\ Step(r, IdleReq)
    /\ orphan' = IF Succeeded(req[r]) /\ OwnerOf(orphan) = req[r].person_id
                 THEN 0 ELSE orphan
    /\ UNCHANGED <<store, recomputes, clean, persona_deletes>>

Init ==
    /\ persons = {}
    /\ person_data = {}
    /\ personas = {}
    /\ next_person_id = 1
    /\ next_data_id = 1
    /\ next_persona_id = 1
    /\ clock = 1
    /\ req = [r \in Reqs |-> IdleReq]
    /\ recomputes = <<>>
    /\ clean = <<>>
    /\ orphan = 0
    /\ persona_deletes = 0

\* ids a client can hold: those of the persons created so far
Known == 1..(next_person_id - 1)

PersonaIds == 1..(next_persona_id - 1)

\* room left under the bounds of a specification
RoomForData(max) == next_data_id + PendingInserts <= max
RoomForVersion(pid, max) ==
    get_by_person_id(pid).version + PendingRecomputes(pid) < max

Next ==
    \/ next_person_id \in RacePersons /\ create_person
    \/ \E r \in Reqs, pid \in Known : begin_delete_person(r, pid)
    \/ \E r \in Reqs : delete_read(r)
    \/ \E r \in Reqs : delete_exec(r)
    \/ \E r \in Reqs, pid \in Known, text \in RaceTexts, source \in Sources :
          RoomForData(MaxData) /\ begin_add_person_data(r, pid, text, source)
    \/ \E r \in Reqs, pid \in Known, text \in RaceTexts, source \in Sources :
          /\ RoomForData(MaxData) /\ RoomForVersion(pid, MaxVersion)
          /\ begin_add_person_data_and_regenerate(r, pid, text, source)
    \/ \E r \in Reqs : add_read(r)
    \/ \E r \in Reqs : add_insert(r)
    \/ \E r \in Reqs, pid \in Known :
          RoomForVersion(pid, MaxVersion) /\ begin_recompute_persona(r, pid)
    \/ \E r \in Reqs : rc_fetch(r)
    \/ \E r \in Reqs : rc_llm(r)
    \/ \E r \in Reqs : rc_version(r)
    \/ \E r \in Reqs : upsert_check(r)
    \/ \E r \in Reqs : upsert_write(r)
    \/ \E id \in PersonaIds :
          persona_deletes < MaxPersonaDeletes /\ delete_persona(id)
    \/ \E r \in Reqs : respond(r)

Spec == Init /\ [][Next]_vars

\* one request at a time, reads included
NextSeq ==
    \/ next_person_id \in SeqPersons /\ req[1].pc = "idle" /\ create_person
    \/ \E pid \in Known : begin_delete_person(1, pid)
    \/ delete_read(1)
    \/ delete_exec(1)
    \/ \E pid \in Known, text \in Texts, source \in Sources :
          RoomForData(MaxSeqData) /\ begin_add_person_data(1, pid, text, source)
    \/ \E pid \in Known, text \in Texts, source \in Sources :
          /\ RoomForData(MaxSeqData) /\ RoomForVersion(pid, MaxSeqVersion)
          /\ begin_add_person_data_and_regenerate(1, pid, text, source)
    \/ add_read(1)
    \/ add_insert(1)
    \/ \E pid \in Known :
          RoomForVersion(pid, MaxSeqVersion) /\ begin_recompute_persona(1, pid)
    \/ rc_fetch(1)
    \/ rc_llm(1)
    \/ rc_version(1)
    \/ upsert_check(1)
    \/ upsert_write(1)
    \/ \E id \in PersonaIds :
          /\ persona_deletes < MaxSeqPersonaDeletes /\ req[1].pc = "idle"
          /\ delete_persona(id)
    \/ respond(1)

SpecSeq == Init /\ [][NextSeq]_vars

\* one request at a time, the read requests among the writes they observe
NextRead ==
    \/ next_person_id \in SeqPersons /\ req[1].pc = "idle" /\ create_person
    \/ \E pid \in Known : begin_delete_person(1, pid)
    \/ delete_read(1)
    \/ delete_exec(1)
    \/ \E pid \in Known, text \in Texts, source \in Sources :
          RoomForData(MaxReadData) /\ begin_add_person_data(1, pid, text, source)
    \/ \E pid \in Known, text \in Texts, source \in Sources :
          /\ RoomForData(MaxReadData) /\ RoomForVersion(pid, MaxReadVersion)
          /\ begin_add_person_data_and_regenerate(1, pid, text, source)
    \/ add_read(1)
    \/ add_insert(1)
    \/ rc_fetch(1)
    \/ rc_llm(1)
    \/ rc_version(1)
    \/ upsert_check(1)
    \/ upsert_write(1)
    \/ \E pid \in Known, limit \in Limits, offset \in Offsets :
          begin_get_person_data_history(1, pid, limit, offset)
    \/ history_items(1)
    \/ history_count(1)
    \/ \E pid \in Known : begin_get_person(1, pid)
    \/ get_person_read(1)
    \/ get_person_count(1)
    \/ get_person_persona(1)
    \/ respond(1)

SpecRead == Init /\ [][NextRead]_vars

\* one request at a time, from the query string of the two POST routes on
NextApi ==
    \/ next_person_id \in RacePersons /\ req[1].pc = "idle" /\ create_person
    \/ \E pid \in SeqPersons, text \in ApiTexts, source \in Sources :
          RoomForData(MaxApiData) /\ post_person_data(1, pid, text, source)
    \/ \E pid \in SeqPersons, text \in ApiTexts, source \in Sources :
          /\ RoomForData(MaxApiData) /\ RoomForVersion(pid, MaxApiVersion)
          /\ post_data_and_regenerate(1, pid, text, source)
    \/ add_read(1)
    \/ add_insert(1)
    \/ rc_fetch(1)
    \/ rc_llm(1)
    \/ rc_version(1)
    \/ upsert_check(1)
    \/ upsert_write(1)
    \/ respond(1)

SpecApi == Init /\ [][NextApi]_vars

\* one request at a time, the persona routes of routes.py on the personas
\* that data-and-regenerate made
NextLegacy ==
    \/ next_person_id \in SeqPersons /\ req[1].pc = "idle" /\ create_person
    \/ \E pid \in Known, text \in Texts, source \in Sources :
          /\ RoomForData(MaxLegacyData) /\ RoomForVersion(pid, MaxLegacyVersion)
          /\ begin_add_person_data_and_regenerate(1, pid, text, source)
    \/ add_read(1)
    \/ add_insert(1)
    \/ rc_fetch(1)
    \/ rc_llm(1)
    \/ rc_version(1)
    \/ upsert_check(1)
    \/ upsert_write(1)
    \/ \E id_1, id_2 \in PersonaIds, text \in Texts \cup {None} :
          begin_merge_personas(1, id_1, id_2, text)
    \/ merge_read_1(1)
    \/ merge_read_2(1)
    \/ merge_llm(1)
    \/ merge_update(1)
    \/ merge_delete(1)
    \/ \E format \in Formats, limit \in Limits :
          begin_export_personas(1, format, limit)
    \/ export_list(1)
    \/ respond(1)

SpecLegacy == Init /\ [][NextLegacy]_vars

\* the URL batches of POST /v1/persona, one at a time
UrlBatches == UNION {[1..n -> Pages] : n \in 1..MaxUrls}

NextFetch ==
    \/ \E urls \in UrlBatches : begin_fetch_multiple(1, urls)
    \/ fetch_url(1)
    \/ fetch_multiple_return(1)
    \/ respond(1)

SpecFetch == Init /\ [][NextFetch]_vars

\* requests to the persona router, one at a time
NextRoute ==
    \/ \E method \in Methods, path \in Paths : route_request(1, method, path)
    \/ respond(1)

SpecRoute == Init /\ [][NextRoute]_vars

\* the JSON recovery on the responses of the model, one at a time
NextParse ==
    \/ req[1].pc = "idle" /\ \E text \in Responses : begin_safe_json_parse(1, text)
    \/ parse_direct(1)
    \/ parse_markdown(1)
    \/ parse_braces(1)
    \/ respond(1)

SpecParse == Init /\ [][NextParse]_vars

\* data-and-regenerate requests, one at a time, with the pipeline in steps
NextLLM ==
    \/ next_person_id \in RacePersons /\ create_person
    \/ \E pid \in Known, text \in Texts, source \in Sources :
          /\ RoomForData(MaxLlmData) /\ RoomForVersion(pid, MaxLlmVersion)
          /\ begin_add_person_data_and_regenerate(1, pid, text, source)
    \/ add_read(1)
    \/ add_insert(1)
    \/ rc_fetch(1)
    \/ step1_clean_text(1)
    \/ step2_populate_persona(1)
    \/ rc_version(1)
    \/ upsert_check(1)
    \/ upsert_write(1)
    \/ respond(1)

SpecLLM == Init /\ [][NextLLM]_vars

\* ------------------------------------------------------------ properties
Elems(seq) == {seq[i] : i \in 1..Len(seq)}

IdsOf(pid) == {x.id : x \in RowsOf(pid)}

Done(q) == q.pc = "done"

\* C1: when a recompute_persona that overlapped no other request returns
\* its persona, the stored lineage of the person lists exactly the ids of
\* all person_data rows of that person, each once, and nothing else.
C1_LineageIsWholeHistory ==
    \A r \in Reqs :
        Succeeded(req[r]) /\ req[r].alone =>
            LET pid == req[r].person_id
                stored == get_by_person_id(pid)
            IN  /\ stored # NoPersona
                /\ stored = req[r].ret_persona
                /\ Elems(stored.computed_from_data_ids) = IdsOf(pid)
                /\ Len(stored.computed_from_data_ids) = count_for_person(pid)

C1_Witness ==
    \E r \in Reqs :
        /\ Succeeded(req[r])
        /\ req[r].alone
        /\ req[r].ret_persona.version >= 2
        /\ Len(req[r].ret_persona.computed_from_data_ids) >= 2

C1_WitnessOtherPerson ==
    \E r \in Reqs :
        /\ Succeeded(req[r])
        /\ req[r].alone
        /\ \E x \in person_data : x.person_id # req[r].person_id

\* C2: as long as the persona of a person was not deleted, the stored
\* version equals the number of successful recomputations of that person
\* (no persona before the first one), so k calls in a row store 1, 2, ..., k.
C2_VersionCountsRecomputes ==
    /\ \A p \in persons :
          clean[p] => get_by_person_id(p).version = recomputes[p]
    /\ \A r \in Reqs :
          Succeeded(req[r]) /\ clean[req[r].person_id] =>
              req[r].ret_persona.version = recomputes[req[r].person_id]

C2_Witness ==
    \E r \in Reqs :
        /\ Succeeded(req[r])
        /\ clean[req[r].person_id]
        /\ recomputes[req[r].person_id] >= 3
        /\ count_for_person(req[r].person_id) >= 2

\* C3: a recompute_persona whose LLM pipeline failed leaves the personas
\* table as it was when the call began.
C3_LLMFailureWritesNothing ==
    \A r \in Reqs :
        req[r].failed_at = "llm" /\ req[r].alone =>
            personas = req[r].personas_at_start

C3_Witness ==
    \E r \in Reqs :
        /\ Done(req[r])
        /\ req[r].alone
        /\ req[r].failed_at = "llm"
        /\ get_by_person_id(req[r].person_id).version >= 1

C3_WitnessNoPersona ==
    \E r \in Reqs :
        /\ Done(req[r])
        /\ req[r].alone
        /\ req[r].failed_at = "llm"
        /\ get_by_person_id(req[r].person_id) = NoPersona

\* C4: an add_person_data_and_regenerate whose recomputation failed ends
\* with an error, its person_data row is stored (one row more than before),
\* and the next successful recomputation of the person has it in its lineage.
C4_FailedRegenerateKeepsRow ==
    /\ \A r \in Reqs :
          /\ req[r].op = "add_person_data_and_regenerate"
          /\ Done(req[r])
          /\ req[r].failed_at # "none"
          => /\ req[r].exc # "none"
             /\ http_status(req[r]) # 201
             /\ req[r].ret_persona = NoPersona
             /\ req[r].alone =>
                   /\ req[r].submission \in IdsOf(req[r].person_id)
                   /\ count_for_person(req[r].person_id) =
                          req[r].count_at_start + 1
    /\ \A r \in Reqs :
          /\ Succeeded(req[r]) /\ req[r].alone
          /\ OwnerOf(orphan) = req[r].person_id
          => orphan \in Elems(req[r].ret_persona.computed_from_data_ids)

C4_Witness ==
    \E r \in Reqs :
        /\ Succeeded(req[r])
        /\ req[r].alone
        /\ OwnerOf(orphan) = req[r].person_id
        /\ orphan # req[r].submission

C4_WitnessFailure ==
    \E r \in Reqs :
        /\ req[r].op = "add_person_data_and_regenerate"
        /\ Done(req[r])
        /\ req[r].failed_at \in {"llm", "store"}
        /\ req[r].alone
        /\ req[r].count_at_start >= 1

Stepped(r) == req'[r].pc # req[r].pc

\* C5: every step of add_person_data leaves persons and personas alone
\* and never runs the LLM pipeline; its successful last step adds exactly
\* the one row it was given, for its person, and no other step touches
\* person_data.
C5_AddOnlyAppendsOneRow ==
    [][\A r \in Reqs :
          req[r].op = "add_person_data" /\ Stepped(r) =>
              /\ personas' = personas
              /\ persons' = persons
              /\ ~req'[r].llm_invoked
              /\ IF Done(req'[r]) /\ req'[r].exc = "none"
                 THEN \E row \in person_data' :
                         /\ row \notin person_data
                         /\ person_data' = person_data \cup {row}
                         /\ row.id = req'[r].submission
                         /\ row.person_id = req[r].person_id
                         /\ row.raw_text = req[r].raw_text
                         /\ row.source = req[r].source
                 ELSE person_data' = person_data]_vars

C5_Witness ==
    \E r \in Reqs :
        /\ req[r].op = "add_person_data"
        /\ Done(req[r])
        /\ req[r].exc = "none"
        /\ req[r].count_at_start >= 1
        /\ get_by_person_id(req[r].person_id) # NoPersona

\* C6: an add operation that finds no person when it reads it ends at once
\* with 404, and that step changes no table, creates no row and runs no LLM.
C6_MissingPersonHasNoEffect ==
    [][\A r \in Reqs :
          /\ Adding(req[r])
          /\ req[r].pc = "add_read"
          /\ Stepped(r)
          /\ ~PersonRepository_read(req[r].person_id)
          => /\ Done(req'[r])
             /\ http_status(req'[r]) = 404
             /\ req'[r].submission = 0
             /\ ~req'[r].llm_invoked
             /\ <<persons, person_data, personas>>' =
                    <<persons, person_data, personas>>]_vars

C6_Witness ==
    \E r \in Reqs :
        /\ req[r].op = "add_person_data_and_regenerate"
        /\ Done(req[r])
        /\ req[r].exc = "ValueError"
        /\ req[r].failed_at = "none"
        /\ req[r].person_id \notin persons

\* C7: every person_data row and every persona row belongs to a stored
\* person, and once delete_person has answered success the person and all
\* rows carrying its id are gone.
C7_NoRowOutlivesItsPerson ==
    /\ \A x \in person_data : x.person_id \in persons
    /\ \A x \in personas : x.person_id \in persons
    /\ \A r \in Reqs :
          req[r].op = "delete_person" /\ Done(req[r]) /\ req[r].ret_found =>
              /\ req[r].person_id \notin persons
              /\ RowsOf(req[r].person_id) = {}
              /\ get_by_person_id(req[r].person_id) = NoPersona

C7_Witness ==
    \E r, q \in Reqs :
        /\ req[r].op = "delete_person" /\ Done(req[r]) /\ req[r].ret_found
        /\ req[q].person_id = req[r].person_id
        /\ req[q].pc \in {"add_insert", "up_write"}
        /\ next_data_id > 1
        /\ next_persona_id > 1

\* C8: no two rows of personas carry the same person_id.
C8_OnePersonaPerPerson ==
    \A a, b \in personas : a.person_id = b.person_id => a = b

C8_Witness ==
    \E r \in Reqs :
        /\ Done(req[r])
        /\ Recomputing(req[r])
        /\ ~req[r].existing
        /\ req[r].failed_at = "unique"

\* C9 as stated: the history call returns all N rows of the person.
C9_HistoryReturnsAllRows ==
    \A r \in Reqs :
        req[r].op = "get_person_data_history" /\ Done(req[r]) /\ req[r].alone =>
            Len(req[r].ret_items) = count_for_person(req[r].person_id)

RankOf(x) == Cardinality({y \in RowsOf(x.person_id) : y.id <= x.id})

Min(a, b) == IF a < b THEN a ELSE b

\* C9: with N rows added to a person, the history call returns the rows at
\* positions offset+1 .. offset+limit of the submission order (all N of
\* them when offset = 0 and limit >= N), oldest first, with total N, and
\* get_person reports person_data_count N.
C9_HistoryReturnsPageOfRows ==
    /\ \A r \in Reqs :
          req[r].op = "get_person_data_history" /\ Done(req[r]) /\ req[r].alone =>
              LET q == req[r]
                  n == count_for_person(q.person_id)
                  rest == IF n > q.offset THEN n - q.offset ELSE 0
              IN  /\ q.ret_total = n
                  /\ Len(q.ret_items) = Min(q.limit, rest)
                  /\ q.offset = 0 /\ q.limit >= n => Len(q.ret_items) = n
                  /\ \A i \in 1..Len(q.ret_items) :
                        /\ q.ret_items[i] \in RowsOf(q.person_id)
                        /\ RankOf(q.ret_items[i]) = q.offset + i
    /\ \A r \in Reqs :
          /\ req[r].op = "get_person" /\ Done(req[r]) /\ req[r].alone
          /\ req[r].ret_found
          => req[r].ret_total = count_for_person(req[r].person_id)

C9_Witness ==
    \E r \in Reqs :
        /\ req[r].op = "get_person_data_history"
        /\ Done(req[r])
        /\ req[r].alone
        /\ req[r].offset = 0
        /\ Len(req[r].ret_items) = 2
        /\ req[r].ret_total = 2

Row(x) == <<x.id, x.raw_text, x.source, x.created_at>>

Older(x) == {y \in RowsOf(x.person_id) : y.created_at < x.created_at}

History(pid) ==
    [i \in 1..count_for_person(pid) |->
        Row(CHOOSE x \in RowsOf(pid) : Cardinality(Older(x)) = i - 1)]

IsPrefix(s, t) == Len(s) <= Len(t) /\ SubSeq(t, 1, Len(s)) = s

\* C10: for a person that stays stored, no step shortens or rewrites its
\* oldest-first history, and a row leaves person_data only in the
\* delete_person of its owner.
C10_HistoryIsAppendOnly ==
    [][/\ \A p \in persons \cap persons' : IsPrefix(History(p), History(p)')
       /\ \A x \in person_data \ person_data' :
             /\ x.person_id \notin persons'
             /\ \E r \in Reqs : /\ req[r].op = "delete_person"
                                /\ req[r].pc = "del_exec"
                                /\ req[r].person_id = x.person_id
                                /\ Stepped(r)]_vars

C10_Witness ==
    \E p \in persons :
        /\ Len(History(p)) >= 2
        /\ get_by_person_id(p) # NoPersona

\* C11: a POST of data whose raw_text is empty or longer than 100,000
\* characters is answered 422 in the step that receives it, which changes no
\* table; a raw_text of 1 to 100,000 characters enters the handler; and no
\* stored row carries a raw_text outside these limits.
C11_InvalidTextIsRejectedFirst ==
    [][\A r \in Reqs :
          req[r].pc = "idle" /\ Adding(req'[r]) =>
              IF CharCount(req'[r].raw_text) = 0
                 \/ CharCount(req'[r].raw_text) > 100000
              THEN /\ Done(req'[r])
                   /\ http_status(req'[r]) = 422
                   /\ store' = store
              ELSE /\ req'[r].pc = "add_read"
                   /\ \A x \in person_data' :
                         CharCount(x.raw_text) \in 1..100000]_vars

C11_Witness ==
    \E r \in Reqs :
        /\ Adding(req[r])
        /\ Done(req[r])
        /\ req[r].exc = "RequestValidationError"
        /\ CharCount(req[r].raw_text) = 100001
        /\ req[r].person_id \in persons
        /\ \E x \in person_data : CharCount(x.raw_text) = 100000

\* C12: a data-and-regenerate request for a stored person whose LLM pipeline
\* or persona upsert failed is answered 500, and 404 is answered only when
\* the person is not stored.
C12_RegenerateFailureIs500 ==
    \A r \in Reqs :
        req[r].op = "add_person_data_and_regenerate" /\ Done(req[r]) =>
            /\ req[r].failed_at \in {"llm", "store"} =>
                   http_status(req[r]) = 500
            /\ http_status(req[r]) = 404 => req[r].person_id \notin persons

\* C13: when a merge of two stored personas has answered success, the
\* second id resolves to nothing and the first id resolves to a persona made
\* from the combined text.
C13_MergeKeepsFirstDropsSecond ==
    \A r \in Reqs :
        req[r].op = "merge_personas" /\ Done(req[r]) /\ req[r].exc = "none" =>
            /\ PersonaRepository_read(req[r].persona_id_2) = NoPersona
            /\ PersonaRepository_read(req[r].persona_id_1) # NoPersona
            /\ PersonaRepository_read(req[r].persona_id_1).persona =
                   generate_persona(PlainText(req[r].merged_raw_text))

\* C14: an export in format json over an empty personas table answers an
\* empty list and total_exported 0 unless the store call itself failed; an
\* export in any other format ends with the validation error, status 400,
\* without a single store call.
C14_ExportChecksFormatFirst ==
    \A r \in Reqs :
        req[r].op = "export_personas" /\ Done(req[r]) =>
            IF req[r].format = "json"
            THEN personas = {} /\ req[r].failed_at # "store" =>
                    /\ req[r].exc = "none"
                    /\ req[r].ret_items = <<>>
                    /\ Len(req[r].ret_items) = 0
                    /\ req[r].ret_total = 0
            ELSE /\ req[r].exc = "ValueError"
                 /\ http_status(req[r]) = 400
                 /\ req[r].store_calls = 0

C14_Witness ==
    \E r \in Reqs :
        /\ req[r].op = "export_personas"
        /\ Done(req[r])
        /\ req[r].format = "xml"
        /\ personas # {}

C14_WitnessEmpty ==
    \E r \in Reqs :
        /\ req[r].op = "export_personas"
        /\ Done(req[r])
        /\ req[r].format = "json"
        /\ req[r].exc = "none"
        /\ personas = {}
        /\ persons # {}

\* C15 as stated: fetch_multiple succeeds exactly when some URL of the batch
\* was fetched, and returns the texts of the fetched URLs in input order.
Fetched(urls) == SelectSeq(urls, LAMBDA u : u.ok)

TextsOf(urls) == [i \in 1..Len(urls) |-> urls[i].text]

C15_SucceedsIfAnyUrlFetched ==
    \A r \in Reqs :
        req[r].op = "fetch_multiple" /\ Done(req[r]) =>
            /\ req[r].exc = "none" <=> Fetched(req[r].urls) # <<>>
            /\ req[r].exc = "none" =>
                   req[r].result = join(Separator, TextsOf(Fetched(req[r].urls)))

\* C16: a request whose method and path are those of a fixed-literal route
\* (/search, /stats, /export, /merge, /batch) is dispatched to that route's
\* handler, never to a handler of /{persona_id}.
FixedLiteral ==
    {Route("GET", <<"search">>, "search_personas"),
     Route("GET", <<"stats">>, "get_persona_stats"),
     Route("GET", <<"export">>, "export_personas"),
     Route("POST", <<"merge">>, "merge_personas"),
     Route("POST", <<"batch">>, "batch_generate_personas")}

GenericHandlers ==
    {"get_persona", "update_persona_endpoint", "delete_persona_endpoint"}

C16_FixedPathsReachOwnHandler ==
    \A r \in Reqs : \A f \in FixedLiteral :
        /\ req[r].op = "route"
        /\ Done(req[r])
        /\ req[r].method = f.method
        /\ req[r].path = f.path
        => /\ req[r].endpoint = f.endpoint
           /\ req[r].endpoint \notin GenericHandlers

C16_Witness ==
    \E r \in Reqs :
        /\ req[r].op = "route"
        /\ Done(req[r])
        /\ req[r].method = "GET"
        /\ req[r].path = <<"search">>
        /\ req[r].endpoint = "search_personas"

\* C17: a get_person that no other request overlaps answers 404 exactly
\* when no person has the id; otherwise it answers with person_data_count
\* equal to the number of the person's data rows and latest_persona_version
\* equal to the version of the person's persona, null (0 here) exactly when
\* the person has no persona.
C17_GetPersonReportsCountAndVersion ==
    \A r \in Reqs :
        req[r].op = "get_person" /\ Done(req[r]) /\ req[r].alone =>
            LET q == req[r]
                rows == {x \in person_data : x.person_id = q.person_id}
                mine == {x \in personas : x.person_id = q.person_id}
            IN  /\ http_status(q) = 404 <=> q.person_id \notin persons
                /\ q.person_id \in persons =>
                       /\ http_status(q) = 200
                       /\ q.ret_total = Cardinality(rows)
                       /\ q.ret_version = 0 <=> mine = {}
                       /\ \A x \in mine : q.ret_version = x.version

C17_Witness ==
    \E r \in Reqs :
        /\ req[r].op = "get_person"
        /\ Done(req[r])
        /\ req[r].alone
        /\ req[r].ret_found
        /\ req[r].ret_total = 2
        /\ req[r].ret_version = 2

C17_WitnessNotFound ==
    \E r \in Reqs :
        /\ req[r].op = "get_person"
        /\ Done(req[r])
        /\ req[r].alone
        /\ ~req[r].ret_found
        /\ persons # {}

C17_WitnessNoPersona ==
    \E r \in Reqs :
        /\ req[r].op = "get_person"
        /\ Done(req[r])
        /\ req[r].alone
        /\ req[r].ret_found
        /\ req[r].ret_total = 1
        /\ req[r].ret_version = 0

\* C18: the text a recomputation that no other request overlaps hands to
\* the LLM pipeline holds one part per data row of the person: part i has
\* the header numbered i and the raw_text of the i-th oldest row, so no
\* row is missing, doubled or out of order; and the lineage list of every
\* stored persona names the rows of its text in the same order.
RowAt(pid, created_at) ==
    {x \in person_data : x.person_id = pid /\ x.created_at = created_at}

C18_TextHoldsEveryRowInOrder ==
    /\ \A r \in Reqs :
          Recomputing(req[r]) /\ req[r].llm_invoked /\ req[r].alone =>
              LET q == req[r]
                  text == _concatenate_person_data(q.all_data)
                  rows == {x \in person_data : x.person_id = q.person_id}
              IN  /\ Len(text) = Cardinality(rows)
                  /\ \A i \in 1..Len(text) :
                        /\ text[i].header[1] = i
                        /\ \E x \in RowAt(q.person_id, text[i].header[2]) :
                               /\ x.raw_text = text[i].raw_text
                               /\ x.id = data_ids(q.all_data)[i]
                  /\ \A i, j \in 1..Len(text) :
                        i < j => text[i].header[2] < text[j].header[2]
                  /\ q.persona_json # NoDoc => q.persona_json.input = text
    /\ \A p \in personas :
          /\ Len(p.computed_from_data_ids) = Len(p.persona.input)
          /\ \A i \in 1..Len(p.persona.input) :
                /\ p.persona.input[i].header[1] = i
                /\ \A x \in RowAt(p.person_id, p.persona.input[i].header[2]) :
                       x.id = p.computed_from_data_ids[i]

C18_Witness ==
    \E r \in Reqs :
        /\ Recomputing(req[r])
        /\ req[r].alone
        /\ req[r].pc = "done"
        /\ req[r].ret_persona \in personas
        /\ Len(req[r].ret_persona.persona.input) = 2
        /\ req[r].ret_persona.persona.input[1].raw_text
              # req[r].ret_persona.persona.input[2].raw_text

\* C19: two add_person_data_and_regenerate calls for one person can both
\* hold the version computed from the same read before either has written.
\* Every successful write stores exactly the version its request computed,
\* so when one of the two writes, the stored version is already the one the
\* other is about to write, and a write that finds its own version stored
\* completes a recomputation without raising the version; a write fails on
\* the uniqueness constraint only when its request found no persona at the
\* existence check and another request inserted one since; unless a persona
\* of the person was deleted, that request had read no persona either.
Stored(pid) == get_by_person_id(pid).version

ReadSameVersion(r, q) ==
    /\ q # r
    /\ Recomputing(req[q])
    /\ req[q].person_id = req[r].person_id
    /\ req[q].pc \in {"up_check", "up_write"}
    /\ req[q].new_version = req[r].new_version

C19_SameReadWritesSameVersion ==
    [][\A r \in Reqs :
          Recomputing(req[r]) /\ req[r].pc = "up_write" /\ Stepped(r) =>
              LET pid == req[r].person_id
                  v == req[r].new_version
              IN  /\ Succeeded(req'[r]) =>
                         /\ Stored(pid)' = v
                         /\ req'[r].ret_persona.version = v
                         /\ \A q \in Reqs :
                                ReadSameVersion(r, q) =>
                                    Stored(pid)' = req'[q].new_version
                  /\ Succeeded(req'[r]) /\ Stored(pid) = v =>
                         /\ Stored(pid)' = Stored(pid)
                         /\ clean[pid] =>
                                recomputes'[pid] = recomputes[pid] + 1
                  /\ req'[r].failed_at = "unique" =>
                         /\ clean[pid] => v = 1
                         /\ ~req[r].existing
                         /\ Stored(pid) >= 1
                         /\ personas' = personas]_vars

C19_Witness ==
    \E r, q \in Reqs :
        /\ r # q
        /\ req[r].op = "add_person_data_and_regenerate"
        /\ req[q].op = "add_person_data_and_regenerate"
        /\ req[q].person_id = req[r].person_id
        /\ Succeeded(req[r])
        /\ req[q].pc = "up_write"
        /\ req[q].new_version = req[r].ret_persona.version
        /\ Stored(req[r].person_id) = req[q].new_version

C19_WitnessLostUpdate ==
    \E r \in Reqs :
        /\ req[r].op = "add_person_data_and_regenerate"
        /\ Succeeded(req[r])
        /\ clean[req[r].person_id]
        /\ recomputes[req[r].person_id] = 2
        /\ Stored(req[r].person_id) = 1

C19_WitnessUnique ==
    \E r \in Reqs :
        /\ req[r].op = "add_person_data_and_regenerate"
        /\ Done(req[r])
        /\ req[r].failed_at = "unique"

\* C20: a recomputation whose upsert found no persona at its existence check
\* and inserts one, inserts it with version 1.
C20_InsertBranchWritesVersionOne ==
    [][\A r \in Reqs :
          /\ Recomputing(req[r])
          /\ req[r].pc = "up_write"
          /\ Stepped(r)
          /\ ~req[r].existing
          /\ Succeeded(req'[r])
          => /\ req'[r].ret_persona.version = 1
             /\ Stored(req[r].person_id)' = 1]_vars

\* C21: a recompute_persona that reads no data row for its person ends in
\* that step with the result None and no error; it has not run the LLM
\* pipeline, has not reached the read of the personas table, and the step
\* changes no table.
C21_NoDataReturnsNone ==
    [][\A r \in Reqs :
          /\ req[r].op = "recompute_persona"
          /\ req[r].pc = "rc_fetch"
          /\ Stepped(r)
          /\ count_for_person(req[r].person_id) = 0
          /\ req'[r].failed_at # "store"
          => /\ Done(req'[r])
             /\ req'[r].exc = "none"
             /\ req'[r].ret_persona = NoPersona
             /\ ~req'[r].llm_invoked
             /\ req'[r].persona_json = NoDoc
             /\ req'[r].new_version = 0
             /\ ~req'[r].existing
             /\ store' = store]_vars

C21_Witness ==
    \E r \in Reqs :
        /\ req[r].op = "recompute_persona"
        /\ Done(req[r])
        /\ req[r].person_id \in persons
        /\ person_data # {}
        /\ count_for_person(req[r].person_id) = 0
        /\ req[r].exc = "none"
        /\ req[r].ret_persona = NoPersona

\* C22: the JSON recovery tries the whole response, then the first fenced
\* code block, then the text from the first "{" to the last "}", in this
\* order; it stops at the first that parses and returns its value, goes on
\* when one does not, and raises exactly when none of the three parses.
Strategies == <<"direct", "markdown", "braces">>

WholeParses(text) == json_loads(text) # JSONDecodeError

FirstBlock(text) ==
    LET m == re_search(text) IN SubSeq(text, m[2], m[3])

BlockParses(text) ==
    code_blocks(text) # {} /\ json_loads(FirstBlock(text)) # JSONDecodeError

BraceSpan(text) == SubSeq(text, find_open(text), rfind_close(text))

BracesParse(text) ==
    /\ find_open(text) # 0
    /\ rfind_close(text) > find_open(text)
    /\ json_loads(BraceSpan(text)) # JSONDecodeError

C22_StrategiesInOrder ==
    \A r \in Reqs :
        req[r].op = "_safe_json_parse" =>
            LET q == req[r]
                text == q.response
            IN  /\ q.tried = SubSeq(Strategies, 1, Len(q.tried))
                /\ Done(q) =>
                       /\ Len(q.tried) = IF WholeParses(text) THEN 1
                                         ELSE IF BlockParses(text) THEN 2
                                         ELSE 3
                       /\ q.exc # "none" <=>
                              /\ ~WholeParses(text)
                              /\ ~BlockParses(text)
                              /\ ~BracesParse(text)
                       /\ q.exc # "none" =>
                              q.exc = "ValueError" /\ q.parsed = <<>>
                       /\ q.exc = "none" =>
                              q.parsed =
                                  IF WholeParses(text) THEN json_loads(text)
                                  ELSE IF BlockParses(text)
                                  THEN json_loads(FirstBlock(text))
                                  ELSE json_loads(BraceSpan(text))

C22_Witness ==
    \E r \in Reqs :
        /\ req[r].op = "_safe_json_parse"
        /\ Done(req[r])
        /\ req[r].exc = "none"
        /\ req[r].tried = <<"direct", "markdown">>
        /\ ~BracesParse(req[r].response)

C22_WitnessBraces ==
    \E r \in Reqs :
        /\ req[r].op = "_safe_json_parse"
        /\ Done(req[r])
        /\ req[r].exc = "none"
        /\ req[r].tried = Strategies

C22_WitnessRaises ==
    \E r \in Reqs :
        /\ req[r].op = "_safe_json_parse"
        /\ Done(req[r])
        /\ req[r].exc = "ValueError"
        /\ code_blocks(req[r].response) # {}

\* C23: populate_persona is invoked only after clean_text has answered, and
\* with clean_text's answer; a request holds a persona document only when
\* both steps succeeded; a pipeline failure in either step is raised to the
\* caller, which then holds no document and has written no persona.
C23_PipelineIsAllOrNothing ==
    \A r \in Reqs :
        Recomputing(req[r]) =>
            LET q == req[r]
            IN  /\ q.populate_input # "" =>
                       /\ q.cleaned_text \in CleanedTexts
                       /\ q.populate_input = q.cleaned_text
                /\ q.pc = "llm_step2" => q.cleaned_text \in CleanedTexts
                /\ q.persona_json # NoDoc =>
                       /\ q.cleaned_text \in CleanedTexts
                       /\ q.populate_input = q.cleaned_text
                       /\ q.parsed = _safe_json_parse(q.response)
                       /\ q.parsed # <<"ValueError">>
                       /\ q.failed_at # "llm"
                /\ q.failed_at = "llm" =>
                       /\ Done(q)
                       /\ q.exc = "ValueError"
                       /\ q.persona_json = NoDoc
                       /\ q.ret_persona = NoPersona
                       /\ q.alone => personas = q.personas_at_start
                /\ Succeeded(q) => q.persona_json # NoDoc

C23_Witness ==
    \E r \in Reqs :
        /\ Recomputing(req[r])
        /\ Done(req[r])
        /\ req[r].failed_at = "llm"
        /\ req[r].cleaned_text \in CleanedTexts
        /\ req[r].populate_input = req[r].cleaned_text
        /\ req[r].response = <<"j">>
        /\ req[r].alone
        /\ personas # {}

C23_WitnessStep1 ==
    \E r \in Reqs :
        /\ Recomputing(req[r])
        /\ Done(req[r])
        /\ req[r].failed_at = "llm"
        /\ req[r].cleaned_text = ""

C23_WitnessStored ==
    \E r \in Reqs :
        /\ Succeeded(req[r])
        /\ req[r].response = <<"j", "{", "v", "}">>
        /\ req[r].ret_persona \in personas

\* C24: a history call that no other request overlaps returns, of the
\* person's rows in oldest-first order, those at the 0-based positions
\* offset .. offset+limit-1 that exist, in that order, and a total equal to
\* the number of all the person's rows.
OldestFirst(pid) ==
    [i \in 1..Cardinality({x \in person_data : x.person_id = pid}) |->
        CHOOSE x \in person_data :
            /\ x.person_id = pid
            /\ Cardinality(Older(x)) = i - 1]

C24_HistoryPage ==
    \A r \in Reqs :
        req[r].op = "get_person_data_history" /\ Done(req[r]) /\ req[r].alone =>
            LET q == req[r]
                all == OldestFirst(q.person_id)
                last == Min(q.offset + q.limit, Len(all))
            IN  /\ q.ret_total = Len(all)
                /\ q.ret_items = IF q.offset + 1 > last THEN <<>>
                                 ELSE SubSeq(all, q.offset + 1, last)
                /\ Len(q.ret_items) <= q.limit
                /\ Len(q.ret_items) < q.limit => q.offset + q.limit > Len(all)

C24_Witness ==
    \E r \in Reqs :
        /\ req[r].op = "get_person_data_history"
        /\ Done(req[r])
        /\ req[r].alone
        /\ req[r].offset = 1
        /\ req[r].limit = 1
        /\ req[r].ret_total = 2
        /\ Len(req[r].ret_items) = 1
        /\ req[r].ret_items[1] = OldestFirst(req[r].person_id)[2]

C24_WitnessShortPage ==
    \E r \in Reqs :
        /\ req[r].op = "get_person_data_history"
        /\ Done(req[r])
        /\ req[r].alone
        /\ req[r].offset = 1
        /\ req[r].limit = 2
        /\ req[r].ret_total = 2
        /\ Len(req[r].ret_items) = 1

\* C25: a history call for an id that no person has is answered 404.
C25_HistoryOfMissingPersonIs404 ==
    \A r \in Reqs :
        /\ req[r].op = "get_person_data_history"
        /\ Done(req[r])
        /\ req[r].alone
        /\ req[r].person_id \notin persons
        => http_status(req[r]) = 404

\* C26: no step replaces the lineage of a stored persona by one that lacks
\* an id the old one had.
C26_LineageNeverShrinks ==
    [][\A old \in personas : \A new \in personas' :
          old.id = new.id =>
              Elems(old.computed_from_data_ids)
                  \subseteq Elems(new.computed_from_data_ids)]_vars

\* C27: the persona that a successful add_person_data_and_regenerate returns
\* names, in its lineage, the data row that this call inserted.
C27_OwnRowIsInLineage ==
    \A r \in Reqs :
        req[r].op = "add_person_data_and_regenerate" /\ Succeeded(req[r]) =>
            /\ req[r].submission # 0
            /\ req[r].submission
                  \in Elems(req[r].ret_persona.computed_from_data_ids)

C27_Witness ==
    \E r \in Reqs :
        /\ req[r].op = "add_person_data_and_regenerate"
        /\ Succeeded(req[r])
        /\ ~req[r].alone
        /\ Len(req[r].ret_persona.computed_from_data_ids) = 2
        /\ req[r].ret_persona.computed_from_data_ids[1] = req[r].submission
        /\ get_by_person_id(req[r].person_id).version = 1
        /\ recomputes[req[r].person_id] = 2

\* C28: while a person stays stored, no step lowers the persona version
\* that get_person would report for it, nor takes it back to null (0 here).
C28_ReportedVersionNeverDrops ==
    [][\A p \in persons \cap persons' :
          get_by_person_id(p).version' >= get_by_person_id(p).version]_vars

\* C29: a step that changes the document of a stored persona raises its
\* version.
C29_DocumentChangesWithVersion ==
    [][\A old \in personas : \A new \in personas' :
          old.id = new.id /\ old.persona # new.persona =>
              new.version > old.version]_vars

\* C30: a merge that reports failure, and that no other request overlaps,
\* leaves the personas table as it was when the merge began.
C30_FailedMergeChangesNothing ==
    \A r \in Reqs :
        /\ req[r].op = "merge_personas"
        /\ Done(req[r])
        /\ req[r].exc # "none"
        /\ req[r].alone
        => personas = req[r].personas_at_start

====
